---- MODULE Spec2Model ----
(***************************************************************************)
(* A model of two components of the repository:                            *)
(*   - lib/revisionstore/src/dataindex.rs: the datapack index writer and   *)
(*     its mmap-backed reader (DataIndexOptions, IndexEntry, DataIndex);   *)
(*   - edenscmnative/bindings/modules/pyrevlogindex/src/lib.rs: the        *)
(*     RevlogIndex DAG reader with its in-memory tail and phasesets.       *)
(* Files are modelled as sequences of bytes (0..255).  Rust slices are     *)
(* 0-based and half-open; Slice(s, a, b) is s[a..b].                       *)
(***************************************************************************)
EXTENDS Integers, Sequences, FiniteSets, TLC

(***************************************************************************)
(* Program constants                                                       *)
(***************************************************************************)
ENTRY_LEN == 40
SMALL_FANOUT_CUTOFF == 8192
NODE_LEN == 20
SMALL_RAW_SIZE == 1024
LARGE_RAW_SIZE == 262144
LARGE_CONFIG == 128

(***************************************************************************)
(* Bounds of the model                                                     *)
(***************************************************************************)
MaxEntries == 3

MaxRawLen == 2

MaxVersion == 3

MaxCount == 8200

MaxDisk == 2

MaxTail == 2

(***************************************************************************)
(* Bytes, slices and fixed-width integers                                  *)
(*   u32 values are records [hi, lo] of two 16-bit halves; i32 values are  *)
(*   integers in -2^31 .. 2^31-1; u64 and usize values are naturals.       *)
(***************************************************************************)
Slice(s, a, b) == SubSeq(s, a + 1, b)

Zeros(n) == [i \in 1..n |-> 0]

U32(n) == [hi |-> n \div 65536, lo |-> n % 65536]

U32Max == [hi |-> 65535, lo |-> 65535]

U32MaxLess1 == [hi |-> 65535, lo |-> 65534]

\* `value as usize` for a u32
U32ToUsize(u) == u.hi * 65536 + u.lo

\* `value as i32` for a u32 (two's complement reinterpretation)
U32AsI32(u) == IF u.hi < 32768 THEN u.hi * 65536 + u.lo
               ELSE (u.hi - 65536) * 65536 + u.lo

\* `value as u32` for an i32
I32AsU32(v) == [hi |-> (v \div 65536) % 65536, lo |-> v % 65536]

\* u32 comparison `a < b`
U32Less(a, b) == a.hi < b.hi \/ (a.hi = b.hi /\ a.lo < b.lo)

WriteU32BE(u) == << u.hi \div 256, u.hi % 256, u.lo \div 256, u.lo % 256 >>

ReadU32BE(b) == [hi |-> b[1] * 256 + b[2], lo |-> b[3] * 256 + b[4]]

WriteI32BE(v) == WriteU32BE(I32AsU32(v))

ReadI32BE(b) == U32AsI32(ReadU32BE(b))

RECURSIVE WriteU64BEAcc(_, _, _)
WriteU64BEAcc(n, k, acc) ==
    IF k = 0 THEN acc ELSE WriteU64BEAcc(n \div 256, k - 1, << n % 256 >> \o acc)

WriteU64BE(n) == WriteU64BEAcc(n, 8, << >>)

RECURSIVE ReadU64BEAcc(_, _, _)
ReadU64BEAcc(b, i, acc) ==
    IF i > 8 THEN acc ELSE ReadU64BEAcc(b, i + 1, acc * 256 + b[i])

ReadU64BE(b) == ReadU64BEAcc(b, 1, 0)

(***************************************************************************)
(* types::Node: 20 bytes, ordered lexicographically                        *)
(***************************************************************************)
RECURSIVE BytesCmpFrom(_, _, _)
BytesCmpFrom(a, b, i) ==
    IF i > Len(a) /\ i > Len(b) THEN 0
    ELSE IF i > Len(a) THEN -1
    ELSE IF i > Len(b) THEN 1
    ELSE IF a[i] < b[i] THEN -1
    ELSE IF a[i] > b[i] THEN 1
    ELSE BytesCmpFrom(a, b, i + 1)

\* Ord for byte slices: -1 Less, 0 Equal, 1 Greater
BytesCmp(a, b) == BytesCmpFrom(a, b, 1)

NodeOf(first, last) == << first >> \o Zeros(NODE_LEN - 2) \o << last >>

Nodes == { NodeOf(0, 1), NodeOf(7, 1), NodeOf(7, 2), NodeOf(7, 3), NodeOf(255, 1) }

(***************************************************************************)
(* Results: Ok(value), Err(error kind, message) or a panic                 *)
(***************************************************************************)
Ok(v) == [kind |-> "Ok", err |-> "", msg |-> "", val |-> v]

Err(e, m) == [kind |-> "Err", err |-> e, msg |-> m, val |-> << >>]

Panic(m) == [kind |-> "Panic", err |-> "", msg |-> m, val |-> << >>]

(***************************************************************************)
(* DataIndexOptions                                                        *)
(***************************************************************************)
\* DataIndexOptions::read without the check of the config byte
DataIndexOptions_read_anyconfig(buf) ==
    IF Len(buf) < 1 THEN Err("IoError", "UnexpectedEof")
    ELSE IF buf[1] > 1 THEN Err("DataIndexError", "unsupported version")
    ELSE IF Len(buf) < 2 THEN Err("IoError", "UnexpectedEof")
    ELSE Ok([version |-> buf[1], large |-> buf[2] >= LARGE_CONFIG])

DataIndexOptions_read(buf) ==
    IF Len(buf) < 1 THEN Err("IoError", "UnexpectedEof")
    ELSE LET version == buf[1] IN
         IF version > 1 THEN Err("DataIndexError", "unsupported version")
         ELSE IF Len(buf) < 2 THEN Err("IoError", "UnexpectedEof")
         ELSE LET raw_config == buf[2] IN
              IF raw_config = LARGE_CONFIG
                  THEN Ok([version |-> version, large |-> TRUE])
              ELSE IF raw_config = 0
                  THEN Ok([version |-> version, large |-> FALSE])
              ELSE Err("DataIndexError", "invalid data index")

\* DataIndexOptions::write with the large flag in the lowest bit
DataIndexOptions_write_lowbit(options) ==
    << options.version, IF options.large THEN 1 ELSE 0 >>

DataIndexOptions_write(options) ==
    << options.version, IF options.large THEN LARGE_CONFIG ELSE 0 >>

(***************************************************************************)
(* IndexEntry and DeltaBaseOffset                                          *)
(***************************************************************************)
FullText == [tag |-> "FullText", value |-> U32(0)]

Missing == [tag |-> "Missing", value |-> U32(0)]

Offset(u) == [tag |-> "Offset", value |-> u]

\* IndexEntry::new with Missing stored as the FullText sentinel
IndexEntry_new_onesentinel(node, delta_base_offset, pack_entry_offset, pack_entry_size) ==
    [node |-> node,
     delta_base_offset |->
        IF delta_base_offset.tag = "Offset" THEN delta_base_offset.value ELSE U32Max,
     pack_entry_offset |-> pack_entry_offset,
     pack_entry_size |-> pack_entry_size]

IndexEntry_new(node, delta_base_offset, pack_entry_offset, pack_entry_size) ==
    [node |-> node,
     delta_base_offset |->
        IF delta_base_offset.tag = "FullText" THEN U32Max
        ELSE IF delta_base_offset.tag = "Missing" THEN U32MaxLess1
        ELSE delta_base_offset.value,
     pack_entry_offset |-> pack_entry_offset,
     pack_entry_size |-> pack_entry_size]

IndexEntry_delta_base_offset(entry) ==
    IF entry.delta_base_offset = U32Max THEN FullText
    ELSE IF entry.delta_base_offset = U32MaxLess1 THEN Missing
    ELSE Offset(entry.delta_base_offset)

DeltaBaseOffset_new(value) ==
    IF value >= 0 THEN Ok(Offset(I32AsU32(value)))
    ELSE IF value = -1 THEN Ok(FullText)
    ELSE IF value = -2 THEN Ok(Missing)
    ELSE Err("DataIndexError", "invalid delta base offset value")

DeltaBaseOffset_to_i32(d) ==
    IF d.tag = "Offset" THEN U32AsI32(d.value)
    ELSE IF d.tag = "FullText" THEN -1
    ELSE -2

\* SliceExt::get_err: a checked sub-slice
get_err(s, a, b) ==
    IF a <= b /\ b <= Len(s) THEN Ok(Slice(s, a, b))
    ELSE Err("InvalidEntryOffset", "slice out of range")

IndexEntry_read(buf) ==
    LET node_slice == get_err(buf, 0, NODE_LEN) IN
    IF node_slice.kind # "Ok" THEN node_slice
    ELSE IF Len(buf) < NODE_LEN + 4 THEN Err("IoError", "UnexpectedEof")
    ELSE LET raw == ReadI32BE(Slice(buf, NODE_LEN, NODE_LEN + 4))
             delta_base_offset == DeltaBaseOffset_new(raw) IN
         IF delta_base_offset.kind # "Ok" THEN delta_base_offset
         ELSE IF Len(buf) < NODE_LEN + 20 THEN Err("IoError", "UnexpectedEof")
         ELSE Ok(IndexEntry_new(
                    node_slice.val,
                    delta_base_offset.val,
                    ReadU64BE(Slice(buf, NODE_LEN + 4, NODE_LEN + 12)),
                    ReadU64BE(Slice(buf, NODE_LEN + 12, NODE_LEN + 20))))

\* IndexEntry::write with the size written before the offset
IndexEntry_write_swapped(entry) ==
    entry.node
    \o WriteI32BE(DeltaBaseOffset_to_i32(IndexEntry_delta_base_offset(entry)))
    \o WriteU64BE(entry.pack_entry_size)
    \o WriteU64BE(entry.pack_entry_offset)

IndexEntry_write(entry) ==
    entry.node
    \o WriteI32BE(DeltaBaseOffset_to_i32(IndexEntry_delta_base_offset(entry)))
    \o WriteU64BE(entry.pack_entry_offset)
    \o WriteU64BE(entry.pack_entry_size)

(***************************************************************************)
(* crate::fanouttable::FanoutTable                                         *)
(***************************************************************************)
FanoutTable_get_size(large) == IF large THEN LARGE_RAW_SIZE ELSE SMALL_RAW_SIZE

\* the fanout prefix of a node: its first byte (small) or first two (large)
get_fanout_index(table_size, node) ==
    IF table_size = SMALL_RAW_SIZE THEN Ok(node[1])
    ELSE IF table_size = LARGE_RAW_SIZE THEN Ok(node[1] * 256 + node[2])
    ELSE Err("FanoutError", "invalid fanout table size")

FanoutRawSize(fanout_factor) ==
    IF fanout_factor = 2 THEN LARGE_RAW_SIZE ELSE SMALL_RAW_SIZE

\* `count` copies of the byte string b
RECURSIVE Repeat(_, _)
Repeat(b, count) ==
    IF count <= 0 THEN << >>
    ELSE IF count % 2 = 1 THEN b \o Repeat(b, count - 1)
    ELSE Repeat(b \o b, count \div 2)

\* the slots from next_slot on, walking the sorted nodes from the i-th: every
\* slot up to the prefix of a node holds the offset of that node's entry (the
\* first entry whose prefix is >= the slot); the slots after the last
\* populated prefix hold the length of the entry table
RECURSIVE FanoutFill(_, _, _, _, _)
FanoutFill(raw_size, nodes, entry_size, i, next_slot) ==
    IF i > Len(nodes)
        THEN Repeat(WriteU32BE(U32(Len(nodes) * entry_size)), raw_size \div 4 - next_slot)
    ELSE LET prefix == get_fanout_index(raw_size, nodes[i]).val IN
         IF prefix >= next_slot
             THEN Repeat(WriteU32BE(U32((i - 1) * entry_size)), prefix - next_slot + 1)
                  \o FanoutFill(raw_size, nodes, entry_size, i + 1, prefix + 1)
         ELSE FanoutFill(raw_size, nodes, entry_size, i + 1, next_slot)

\* FanoutTable::write: the raw table, and the offset of every entry within
\* the entry table (locations)
FanoutTable_write(fanout_factor, nodes, entry_size) ==
    [table |-> FanoutFill(FanoutRawSize(fanout_factor), nodes, entry_size, 1, 0),
     locations |-> [i \in 1..Len(nodes) |-> U32((i - 1) * entry_size)]]

\* FanoutTable::get_bounds: (start, end) relative to the entry table; end is
\* None for the last slot
FanoutTable_get_bounds(table, node) ==
    LET index == get_fanout_index(Len(table), node) IN
    IF index.kind # "Ok" THEN index
    ELSE LET p == index.val
             start == U32ToUsize(ReadU32BE(Slice(table, p * 4, p * 4 + 4))) IN
         IF (p + 1) * 4 >= Len(table)
             THEN Ok([start |-> start, some |-> FALSE, end |-> 0])
         ELSE Ok([start |-> start, some |-> TRUE,
                  end |-> U32ToUsize(ReadU32BE(Slice(table, (p + 1) * 4, (p + 1) * 4 + 4)))])

(***************************************************************************)
(* DataIndex                                                               *)
(***************************************************************************)
None == [some |-> FALSE, node |-> << >>]

Some(n) == [some |-> TRUE, node |-> n]

\* values.sort_by_key(|x| x.0): insertion of each element into a sorted prefix
RECURSIVE InsertSorted(_, _)
InsertSorted(sorted, n) ==
    IF sorted = << >> THEN << n >>
    ELSE IF BytesCmp(n, Head(sorted)) < 0 THEN << n >> \o sorted
    ELSE << Head(sorted) >> \o InsertSorted(Tail(sorted), n)

\* no sort: the entries in the order the HashMap yields them
SortNodes_unsorted(seq) == seq

RECURSIVE SortNodes(_)
SortNodes(seq) ==
    IF seq = << >> THEN << >>
    ELSE InsertSorted(SortNodes(Tail(seq)), Head(seq))

\* the cutoff taken as the first large size
WriteOptions_inclusive(len) == [version |-> 1, large |-> len >= SMALL_FANOUT_CUTOFF]

\* the header DataIndex::write emits for a map of `len` entries
WriteOptions(len) == [version |-> 1, large |-> len > SMALL_FANOUT_CUTOFF]

RECURSIVE Concat(_)
Concat(seqs) == IF seqs = << >> THEN << >> ELSE Head(seqs) \o Concat(Tail(seqs))

\* DataIndex::write(writer, values); `iter` is the order in which the HashMap
\* yields its keys
DataIndex_write(iter, values) ==
    LET options == WriteOptions(Len(iter))
        sorted == SortNodes(iter)
        fanout == FanoutTable_write(IF options.large THEN 2 ELSE 1, sorted, ENTRY_LEN)
        nodelocations == [n \in DOMAIN values |->
            fanout.locations[CHOOSE i \in 1..Len(sorted) : sorted[i] = n]]
        delta_base_offset(value) ==
            IF ~value.delta_base.some THEN FullText
            ELSE IF value.delta_base.node \in DOMAIN nodelocations
                THEN Offset(nodelocations[value.delta_base.node])
            ELSE Missing
        entry(n) == IndexEntry_new(n, delta_base_offset(values[n]),
                                   values[n].offset, values[n].size)
    IN DataIndexOptions_write(options)
       \o fanout.table
       \o WriteU64BE(Len(sorted))
       \o Concat([i \in 1..Len(sorted) |-> IndexEntry_write(entry(sorted[i]))])

\* DataIndex::new(path) on a file with the given content
DataIndex_new(content) ==
    IF Len(content) < 1 THEN Err("DataIndexError", "empty dataidx")
    ELSE LET options == DataIndexOptions_read(content) IN
         IF options.kind # "Ok" THEN options
         ELSE LET fanout_size == FanoutTable_get_size(options.val.large) IN
              Ok([mmap |-> content,
                  fanout_size |-> fanout_size,
                  index_start |-> 2 + fanout_size
                                    + (IF options.val.version = 1 THEN 8 ELSE 0)])

\* a bisection that compares the fanout prefix only
RECURSIVE Bisect_prefix(_, _, _, _)
Bisect_prefix(slice, key, left, right) ==
    IF left >= right THEN -1
    ELSE LET mid == left + (right - left) \div 2
             c == BytesCmp(Slice(slice, mid * ENTRY_LEN, mid * ENTRY_LEN + 1),
                           Slice(key, 0, 1))
         IN IF c < 0 THEN Bisect_prefix(slice, key, mid + 1, right)
            ELSE IF c > 0 THEN Bisect_prefix(slice, key, left, mid)
            ELSE mid

\* slice::binary_search_by over the 40-byte records of `slice`
RECURSIVE Bisect(_, _, _, _)
Bisect(slice, key, left, right) ==
    IF left >= right THEN -1
    ELSE LET mid == left + (right - left) \div 2
             c == BytesCmp(Slice(slice, mid * ENTRY_LEN, mid * ENTRY_LEN + NODE_LEN), key)
         IN IF c < 0 THEN Bisect(slice, key, mid + 1, right)
            ELSE IF c > 0 THEN Bisect(slice, key, left, mid)
            ELSE mid

DataIndex_binary_search(key, slice) ==
    LET size == Len(slice) \div ENTRY_LEN
        found == Bisect(slice, key, 0, size) IN
    IF found >= 0 THEN Ok(found * ENTRY_LEN)
    ELSE Err("KeyError", "no node in slice")

DataIndex_read_entry(self, offset) ==
    LET off == offset + self.index_start
        raw_entry == get_err(self.mmap, off, off + ENTRY_LEN) IN
    IF raw_entry.kind # "Ok" THEN raw_entry
    ELSE IndexEntry_read(raw_entry.val)

\* get_fanout_slice with a checked slice that reports an error
DataIndex_get_fanout_slice_checked(self) ==
    IF 2 + self.fanout_size <= Len(self.mmap)
        THEN Ok(Slice(self.mmap, 2, 2 + self.fanout_size))
    ELSE Err("InvalidEntryOffset", "slice out of range")

DataIndex_get_fanout_slice(self) ==
    IF 2 + self.fanout_size <= Len(self.mmap)
        THEN Ok(Slice(self.mmap, 2, 2 + self.fanout_size))
    ELSE Panic("fanout slice out of range")

DataIndex_get_entry(self, node) ==
    LET fanout == DataIndex_get_fanout_slice(self) IN
    IF fanout.kind # "Ok" THEN fanout
    ELSE LET bounds == FanoutTable_get_bounds(fanout.val, node) IN
         IF bounds.kind # "Ok" THEN bounds
         ELSE LET start == bounds.val.start + self.index_start
                  end == IF bounds.val.some THEN bounds.val.end + self.index_start
                         ELSE Len(self.mmap) IN
              IF start > end \/ end > Len(self.mmap) THEN Panic("slice index out of range")
              ELSE LET entry_offset ==
                           DataIndex_binary_search(node, Slice(self.mmap, start, end)) IN
                   IF entry_offset.kind # "Ok" THEN entry_offset
                   ELSE DataIndex_read_entry(self,
                            (start + entry_offset.val) - self.index_start)

(***************************************************************************)
(* RevlogIndex (pyrevlogindex)                                             *)
(*   self.data is a sequence of RevlogEntry records, of which only the     *)
(*   big-endian fields p1 and p2 are read; self.inserted is the tail.      *)
(*   Revisions are 0-based; sequences here are 1-based.                    *)
(***************************************************************************)
RevlogEntry(p1, p2) == [p1 |-> WriteI32BE(p1), p2 |-> WriteI32BE(p2)]

RevlogIndex_data_len(self) == Len(self.data)

RevlogIndex_len(self) == RevlogIndex_data_len(self) + Len(self.inserted)

\* the assertion with <= for <
ParentBelow_inclusive(p, rev) ==
    U32Less(I32AsU32(p), U32(rev)) \/ I32AsU32(p) = U32(rev)

\* assert!((p as u32) < rev)
ParentBelow(p, rev) == U32Less(I32AsU32(p), U32(rev))

RevlogIndex_parents(self, rev) ==
    LET data_len == RevlogIndex_data_len(self) IN
    IF rev >= data_len
        THEN IF rev - data_len < Len(self.inserted)
                 THEN Ok(self.inserted[rev - data_len + 1])
             ELSE Panic("index out of bounds")
    ELSE LET p1 == ReadI32BE(self.data[rev + 1].p1)
             p2 == ReadI32BE(self.data[rev + 1].p2) IN
         IF p1 = -1
             THEN IF p2 = -1 THEN Ok(<< >>) ELSE Panic("assertion failed: p2 == -1")
         ELSE IF p2 = -1
             THEN IF ParentBelow(p1, rev) THEN Ok(<< U32ToUsize(I32AsU32(p1)) >>)
                  ELSE Panic("assertion failed: (p1 as u32) < rev")
         ELSE IF ~ParentBelow(p1, rev) THEN Panic("assertion failed: (p1 as u32) < rev")
         ELSE IF ~ParentBelow(p2, rev) THEN Panic("assertion failed: (p2 as u32) < rev")
         ELSE Ok(<< U32ToUsize(I32AsU32(p1)), U32ToUsize(I32AsU32(p2)) >>)

\* insert at the front of the tail
RevlogIndex_insert_front(self, parents) ==
    [self EXCEPT !.inserted = << parents >> \o self.inserted]

RevlogIndex_insert(self, parents) ==
    [self EXCEPT !.inserted = Append(self.inserted, parents)]

\* enum Phase, in its derived order
Unspecified == 0

Draft == 1

Public == 2

Phase_max(a, b) == IF a > b THEN a ELSE b

\* `for rev in heads { phases[rev as usize] = phase; }`
RECURSIVE SetHeads(_, _, _, _)
SetHeads(phases, heads, i, phase) ==
    IF i > Len(heads) THEN Ok(phases)
    ELSE IF heads[i] >= Len(phases) THEN Panic("index out of bounds")
    ELSE SetHeads([phases EXCEPT ![heads[i] + 1] = phase], heads, i + 1, phase)

\* `for parent_rev in parents { phases[parent_rev] = phases[parent_rev].max(phase); }`
RECURSIVE Propagate(_, _, _, _)
Propagate(phases, parents, i, phase) ==
    IF i > Len(parents) THEN Ok(phases)
    ELSE IF parents[i] >= Len(phases) THEN Panic("index out of bounds")
    ELSE Propagate([phases EXCEPT ![parents[i] + 1] = Phase_max(phases[parents[i] + 1], phase)],
                   parents, i + 1, phase)

\* `for rev in (0..revlog.len()).rev()`: the revisions below `next`, downwards
RECURSIVE Walk(_, _, _, _, _)
Walk(self, next, phases, public_set, draft_set) ==
    IF next = 0 THEN Ok([public_set |-> public_set, draft_set |-> draft_set])
    ELSE LET rev == next - 1
             phase == phases[rev + 1]
             parents == RevlogIndex_parents(self, rev) IN
         IF parents.kind # "Ok" THEN parents
         ELSE LET propagated == Propagate(phases, parents.val, 1, phase) IN
              IF propagated.kind # "Ok" THEN propagated
              ELSE Walk(self, rev, propagated.val,
                        IF phase = Public THEN public_set \cup { rev } ELSE public_set,
                        IF phase = Draft THEN draft_set \cup { rev } ELSE draft_set)

revlogindex_phasesets(self, publicheads, draftheads) ==
    LET len == RevlogIndex_len(self)
        drafted == SetHeads([i \in 1..len |-> Unspecified], draftheads, 1, Draft) IN
    IF drafted.kind # "Ok" THEN drafted
    ELSE LET published == SetHeads(drafted.val, publicheads, 1, Public) IN
         IF published.kind # "Ok" THEN published
         ELSE Walk(self, len, published.val, { }, { })

(***************************************************************************)
(* State                                                                   *)
(***************************************************************************)
VARIABLES
    values,     \* the map handed to DataIndex::write
    source,     \* how the file at `path` came to be: "none", "write" or "raw"
    file,       \* the bytes of the file at `path`
    index,      \* the DataIndex handle, once DataIndex::new succeeded
    result,     \* the outcome of the last DataIndex operation
    hcount,     \* header machine: the number of entries of the map written
    hopts,      \* header machine: the DataIndexOptions last written
    hbuf,       \* header machine: the bytes written
    hres,       \* header machine: the outcome of the last operation
    records,    \* revlog: the (p1, p2) pairs of the on-disk index, as written
    revlog,     \* revlog: the RevlogIndex (data and inserted)
    passed,     \* revlog: the parent lists passed to insert, in call order
    dres,       \* revlog: the last call, its arguments and its outcome
    eargs,      \* entry machine: the arguments given to IndexEntry::new
    entry,      \* entry machine: the IndexEntry built
    ebuf,       \* entry machine: the bytes IndexEntry::write produced
    eres        \* entry machine: the outcome of the last operation

vars == << values, source, file, index, result, hcount, hopts, hbuf, hres,
           records, revlog, passed, dres, eargs, entry, ebuf, eres >>

indexVars == << values, source, file, index, result >>

headerVars == << hcount, hopts, hbuf, hres >>

dagVars == << records, revlog, passed, dres >>

entryVars == << eargs, entry, ebuf, eres >>

(***************************************************************************)
(* Inputs                                                                  *)
(***************************************************************************)
DeltaLocations ==
    { [delta_base |-> None, offset |-> 0, size |-> 1],
      [delta_base |-> None, offset |-> 70000, size |-> 258],
      [delta_base |-> Some(NodeOf(7, 2)), offset |-> 1, size |-> 70000],
      [delta_base |-> Some(NodeOf(255, 1)), offset |-> 258, size |-> 2] }

KeySets == { K \in SUBSET Nodes : Cardinality(K) <= MaxEntries }

\* every order in which a HashMap may yield the keys K
IterOrders(K) ==
    { s \in [1..Cardinality(K) -> K] : \A i, j \in DOMAIN s : i # j => s[i] # s[j] }

RawBytes == { 0, 1, 2, 128, 255 }

RawFiles == UNION { [1..n -> RawBytes] : n \in 0..MaxRawLen }

\* lengths after the two header bytes at which a small-fanout file is cut:
\* inside the fanout table, at its end, inside and at the end of the
\* version-1 entry count, and inside an entry
RawPads ==
    { SMALL_RAW_SIZE - 1, SMALL_RAW_SIZE, SMALL_RAW_SIZE + 7, SMALL_RAW_SIZE + 8,
      SMALL_RAW_SIZE + 8 + NODE_LEN, SMALL_RAW_SIZE + 8 + ENTRY_LEN }

\* files with a valid header followed by zero bytes up to the cut
PaddedFiles == { << version, 0 >> \o Zeros(k) : version \in { 0, 1 }, k \in RawPads }

NoIndex == [open |-> FALSE, fanout_size |-> 0, index_start |-> 0]

NoResult == [op |-> "none", arg |-> << >>, res |-> Ok(<< >>)]

\* the handle as the methods see it: the fields and the mapped file
Self == [mmap |-> file, fanout_size |-> index.fanout_size,
         index_start |-> index.index_start]

(***************************************************************************)
(* DataIndex machine                                                       *)
(***************************************************************************)
InitIndex ==
    /\ values = << >>
    /\ source = "none"
    /\ file = << >>
    /\ index = NoIndex
    /\ result = NoResult

\* DataIndex::write into a fresh file (make_index, first half)
Write ==
    /\ source = "none"
    /\ \E K \in KeySets :
         \E V \in [K -> DeltaLocations] :
           \E iter \in IterOrders(K) :
             /\ values' = V
             /\ file' = DataIndex_write(iter, V)
    /\ source' = "write"
    /\ result' = [op |-> "write", arg |-> << >>, res |-> Ok(<< >>)]
    /\ UNCHANGED index
    /\ UNCHANGED << headerVars, dagVars, entryVars >>

\* a file that some other program left at `path`
CreateRaw ==
    /\ source = "none"
    /\ \E bytes \in RawFiles \cup PaddedFiles : file' = bytes
    /\ source' = "raw"
    /\ UNCHANGED << values, index, result >>
    /\ UNCHANGED << headerVars, dagVars, entryVars >>

\* DataIndex::new(path)
Open ==
    /\ ~index.open
    /\ result.op # "new"
    /\ LET r == DataIndex_new(file) IN
         /\ result' = [op |-> "new", arg |-> << >>,
                       res |-> IF r.kind = "Ok" THEN Ok(<< >>) ELSE r]
         /\ index' = IF r.kind = "Ok"
                       THEN [open |-> TRUE, fanout_size |-> r.val.fanout_size,
                             index_start |-> r.val.index_start]
                     ELSE index
    /\ UNCHANGED << values, source, file >>
    /\ UNCHANGED << headerVars, dagVars, entryVars >>

\* index.get_entry(node)
GetEntry ==
    /\ index.open
    /\ \E node \in Nodes :
         result' = [op |-> "get_entry", arg |-> node,
                    res |-> DataIndex_get_entry(Self, node)]
    /\ UNCHANGED << values, source, file, index >>
    /\ UNCHANGED << headerVars, dagVars, entryVars >>

\* index.read_entry(offset)
ReadEntry ==
    /\ index.open
    /\ \E k \in 0..MaxEntries :
         result' = [op |-> "read_entry", arg |-> k * ENTRY_LEN,
                    res |-> DataIndex_read_entry(Self, k * ENTRY_LEN)]
    /\ UNCHANGED << values, source, file, index >>
    /\ UNCHANGED << headerVars, dagVars, entryVars >>

(***************************************************************************)
(* Header machine: DataIndexOptions::write / read on a buffer, and the     *)
(* header that DataIndex::write derives from the size of its map           *)
(***************************************************************************)
InitHeader ==
    /\ hcount = 0
    /\ hopts = [version |-> 0, large |-> FALSE]
    /\ hbuf = << >>
    /\ hres = [op |-> "none", res |-> Ok(<< >>)]

\* options.write(&mut buf) on a new, empty buffer
OptionsWrite ==
    /\ hres.op = "none"
    /\ \E version \in 0..MaxVersion, large \in BOOLEAN :
         /\ hopts' = [version |-> version, large |-> large]
         /\ hbuf' = DataIndexOptions_write(hopts')
    /\ hres' = [op |-> "write", res |-> Ok(<< >>)]
    /\ UNCHANGED hcount
    /\ UNCHANGED << indexVars, dagVars, entryVars >>

\* DataIndexOptions::read(&mut Cursor::new(buf))
OptionsRead ==
    /\ hres.op \in { "write", "index_header" }
    /\ hres' = [op |-> "read", res |-> DataIndexOptions_read(hbuf)]
    /\ UNCHANGED << hcount, hopts, hbuf >>
    /\ UNCHANGED << indexVars, dagVars, entryVars >>

\* the first step of DataIndex::write for a map of n entries: build the
\* options from values.len() and write them
WriteHeader ==
    /\ hres.op = "none"
    /\ \E n \in 0..MaxCount :
         /\ hcount' = n
         /\ hopts' = WriteOptions(n)
         /\ hbuf' = DataIndexOptions_write(hopts')
    /\ hres' = [op |-> "index_header", res |-> Ok(<< >>)]
    /\ UNCHANGED << indexVars, dagVars, entryVars >>

NextHeader ==
    \/ OptionsWrite
    \/ OptionsRead
    \/ WriteHeader

(***************************************************************************)
(* Revlog machine: a revlogindex object over an on-disk index              *)
(***************************************************************************)
DiskPairs == { << -1, -1 >>, << 0, -1 >>, << 0, 0 >>, << -1, 0 >>, << -2, -1 >> }

InsertArgs == { << >>, << 1 >>, << 2 >>, << 0, 1 >> }

\* head lists over the revisions 0..n-1
HeadLists(n) ==
    { << >> } \cup { << a >> : a \in 0..(n - 1) }
              \cup { << 0, a >> : a \in { n - 1 } \ { -1, 0 } }

NoCall == [op |-> "none", args |-> << >>, res |-> Ok(<< >>)]

\* revlogindex.__new__(changelogi)
InitDag ==
    /\ records \in UNION { [1..n -> DiskPairs] : n \in 0..MaxDisk }
    /\ revlog = [data |-> [i \in DOMAIN records |->
                              RevlogEntry(records[i][1], records[i][2])],
                 inserted |-> << >>]
    /\ passed = << >>
    /\ dres = NoCall

\* The calls other than insert leave the object as they found it, so a call
\* that follows one of them reaches the states that the same call reaches
\* right after the construction or the insert before: those are the states
\* the other calls are taken from.
Fresh == dres.op \in { "none", "insert" }

\* revlogindex.insert(parents)
Insert ==
    /\ Len(revlog.inserted) < MaxTail
    /\ \E parents \in InsertArgs :
         /\ revlog' = RevlogIndex_insert(revlog, parents)
         /\ passed' = Append(passed, parents)
         /\ dres' = [op |-> "insert", args |-> << parents >>, res |-> Ok(<< >>)]
    /\ UNCHANGED records
    /\ UNCHANGED << indexVars, headerVars, entryVars >>

\* revlogindex.__len__()
LenCall ==
    /\ Fresh
    /\ dres' = [op |-> "len", args |-> << >>, res |-> Ok(RevlogIndex_len(revlog))]
    /\ UNCHANGED << records, revlog, passed >>
    /\ UNCHANGED << indexVars, headerVars, entryVars >>

\* revlogindex.parentrevs(rev)
ParentRevs ==
    /\ Fresh
    /\ \E rev \in 0..RevlogIndex_len(revlog) :
         dres' = [op |-> "parentrevs", args |-> << rev >>,
                  res |-> RevlogIndex_parents(revlog, rev)]
    /\ UNCHANGED << records, revlog, passed >>
    /\ UNCHANGED << indexVars, headerVars, entryVars >>

\* revlogindex.phasesets(publicheads, draftheads)
PhaseSets ==
    /\ Fresh
    /\ \E publicheads \in HeadLists(RevlogIndex_len(revlog)),
          draftheads \in HeadLists(RevlogIndex_len(revlog)) :
         dres' = [op |-> "phasesets", args |-> << publicheads, draftheads >>,
                  res |-> revlogindex_phasesets(revlog, publicheads, draftheads)]
    /\ UNCHANGED << records, revlog, passed >>
    /\ UNCHANGED << indexVars, headerVars, entryVars >>

NextDag ==
    \/ Insert
    \/ LenCall
    \/ ParentRevs
    \/ PhaseSets

IdleDag ==
    /\ records = << >>
    /\ revlog = [data |-> << >>, inserted |-> << >>]
    /\ passed = << >>
    /\ dres = NoCall

(***************************************************************************)
(* Entry machine: one IndexEntry built, written and read back              *)
(***************************************************************************)
\* u32 values around 0, 2^31 and the two sentinels at the top of the range
U32Samples ==
    { [hi |-> h, lo |-> l] : h \in { 0, 1, 32767, 32768, 65535 },
                             l \in { 0, 1, 65534, 65535 } }

DeltaBaseOffsets == { FullText, Missing } \cup { Offset(u) : u \in U32Samples }

PackLocations == { [offset |-> 0, size |-> 1], [offset |-> 70000, size |-> 258] }

NoArgs ==
    [node |-> Zeros(NODE_LEN), delta_base_offset |-> FullText,
     pack_entry_offset |-> 0, pack_entry_size |-> 0]

InitEntry ==
    /\ eargs = NoArgs
    /\ entry = IndexEntry_new(NoArgs.node, NoArgs.delta_base_offset,
                              NoArgs.pack_entry_offset, NoArgs.pack_entry_size)
    /\ ebuf = << >>
    /\ eres = [op |-> "none", res |-> Ok(<< >>)]

\* IndexEntry::new(node, delta_base_offset, pack_entry_offset, pack_entry_size)
EntryNew ==
    /\ eres.op = "none"
    /\ \E node \in Nodes, d \in DeltaBaseOffsets, loc \in PackLocations :
         /\ eargs' = [node |-> node, delta_base_offset |-> d,
                      pack_entry_offset |-> loc.offset,
                      pack_entry_size |-> loc.size]
         /\ entry' = IndexEntry_new(node, d, loc.offset, loc.size)
    /\ eres' = [op |-> "new", res |-> Ok(<< >>)]
    /\ UNCHANGED ebuf
    /\ UNCHANGED << indexVars, headerVars, dagVars >>

\* entry.write(&mut buf)
EntryWrite ==
    /\ eres.op = "new"
    /\ ebuf' = IndexEntry_write(entry)
    /\ eres' = [op |-> "write", res |-> Ok(<< >>)]
    /\ UNCHANGED << eargs, entry >>
    /\ UNCHANGED << indexVars, headerVars, dagVars >>

\* IndexEntry::read(&buf)
EntryRead ==
    /\ eres.op = "write"
    /\ eres' = [op |-> "read", res |-> IndexEntry_read(ebuf)]
    /\ UNCHANGED << eargs, entry, ebuf >>
    /\ UNCHANGED << indexVars, headerVars, dagVars >>

NextEntry ==
    \/ EntryNew
    \/ EntryWrite
    \/ EntryRead

(***************************************************************************)
(* Specifications                                                          *)
(***************************************************************************)
Init == InitIndex /\ InitHeader /\ IdleDag /\ InitEntry

Next ==
    \/ Write
    \/ CreateRaw
    \/ Open
    \/ GetEntry
    \/ ReadEntry

Spec == Init /\ [][Next]_vars

SpecHeader == Init /\ [][NextHeader]_vars

InitD == InitIndex /\ InitHeader /\ InitDag /\ InitEntry

SpecDag == InitD /\ [][NextDag]_vars

SpecEntry == Init /\ [][NextEntry]_vars

(***************************************************************************)
(* Properties of DataIndex                                                 *)
(***************************************************************************)
Written == source = "write"

Queried(k) == Written /\ index.open /\ result.op = "get_entry" /\ result.arg = k

\* C1 (round trip): after write and open, get_entry(k) of a key k of the map
\* succeeds and returns the node k with the offset and size the map gave it.
RoundTrip ==
    \A k \in DOMAIN values :
        Queried(k) =>
            /\ result.res.kind = "Ok"
            /\ result.res.val.node = k
            /\ result.res.val.pack_entry_offset = values[k].offset
            /\ result.res.val.pack_entry_size = values[k].size

RoundTripWitness ==
    \E k \in DOMAIN values :
        /\ Queried(k)
        /\ Cardinality(DOMAIN values) >= 3
        /\ k = NodeOf(7, 2)
        /\ values[k].offset = 70000
        /\ result.res.kind = "Ok"

\* C2 (delta-base fidelity): the entry get_entry(k) returns reports FullText
\* when the map gave k no delta base, Missing when the base is not a key of the
\* map, and Offset(o) with read_entry(o).node = base when the base is a key.
DeltaBaseFidelity ==
    \A k \in DOMAIN values :
        Queried(k) =>
            /\ result.res.kind = "Ok"
            /\ LET d == IndexEntry_delta_base_offset(result.res.val)
                   base == values[k].delta_base
               IN IF ~base.some THEN d = FullText
                  ELSE IF base.node \notin DOMAIN values THEN d = Missing
                  ELSE /\ d.tag = "Offset"
                       /\ LET e == DataIndex_read_entry(Self, U32ToUsize(d.value))
                          IN e.kind = "Ok" /\ e.val.node = base.node

DeltaBaseMissingWitness ==
    \E k \in DOMAIN values :
        /\ Queried(k)
        /\ values[k].delta_base.some
        /\ values[k].delta_base.node \notin DOMAIN values
        /\ IndexEntry_delta_base_offset(result.res.val) = Missing

DeltaBaseOffsetWitness ==
    \E k \in DOMAIN values :
        /\ Queried(k)
        /\ values[k].delta_base.some
        /\ values[k].delta_base.node \in DOMAIN values
        /\ values[k].delta_base.node # k
        /\ IndexEntry_delta_base_offset(result.res.val) = Offset(U32(2 * ENTRY_LEN))

\* C3 (missing key): get_entry(n) of a node n that is not a key of the written
\* map fails with KeyError, never with an entry, another error or a panic.
MissingKey ==
    \A n \in Nodes \ DOMAIN values :
        Queried(n) => result.res.kind = "Err" /\ result.res.err = "KeyError"

MissingKeyWitness ==
    /\ Queried(NodeOf(7, 2))
    /\ DOMAIN values = { NodeOf(7, 1), NodeOf(7, 3), NodeOf(255, 1) }
    /\ result.res.kind = "Err"

\* C4 (header rejection): opening a file that is empty, or whose version byte
\* is above 1, or whose config byte is neither 0x00 nor 0x80, fails with the
\* header error (DataIndexError) and leaves no handle.
BadHeader ==
    \/ Len(file) = 0
    \/ file[1] > 1
    \/ Len(file) >= 2 /\ file[2] \notin { 0, LARGE_CONFIG }

HeaderRejection ==
    (result.op = "new" /\ BadHeader) =>
        /\ result.res.kind = "Err"
        /\ result.res.err = "DataIndexError"
        /\ ~index.open

HeaderRejectionWitness ==
    /\ result.op = "new"
    /\ file = << 0, 1 >>
    /\ result.res.kind = "Err"

\* C10 (sorted entries): a written file holds, after the header, the fanout
\* table and the entry count, exactly one 40-byte record per key of the map,
\* and the nodes of the records are strictly ascending.
EntryTableStart == 2 + SMALL_RAW_SIZE + 8

EntryNode(i) ==
    Slice(file, EntryTableStart + (i - 1) * ENTRY_LEN,
                EntryTableStart + (i - 1) * ENTRY_LEN + NODE_LEN)

SortedEntries ==
    Written =>
        LET n == Cardinality(DOMAIN values) IN
        /\ Len(file) = EntryTableStart + n * ENTRY_LEN
        /\ { EntryNode(i) : i \in 1..n } = DOMAIN values
        /\ \A i \in 1..(n - 1) : BytesCmp(EntryNode(i), EntryNode(i + 1)) < 0

SortedEntriesWitness ==
    /\ Written
    /\ Cardinality(DOMAIN values) >= 3
    /\ EntryNode(1) = NodeOf(0, 1)
    /\ EntryNode(3) = NodeOf(255, 1)

(***************************************************************************)
(* Properties of the header                                                *)
(***************************************************************************)
\* C5 (header round trip): a header with version 0 or 1 and either fanout
\* size, written and read back, is read as the header that was written.
HeaderRoundTrip ==
    (hres.op = "read" /\ hopts.version \in { 0, 1 }) => hres.res = Ok(hopts)

HeaderRoundTripWitness ==
    /\ hres.op = "read"
    /\ hopts = [version |-> 1, large |-> TRUE]
    /\ hbuf = << 1, 128 >>

\* C9 (fanout threshold): the header of a written index has version byte 1,
\* and config byte 0x00 for a map of at most 8192 entries, 0x80 for more.
FanoutThreshold ==
    hres.op = "index_header" =>
        /\ hbuf[1] = 1
        /\ hcount <= 8192 => hbuf[2] = 0
        /\ hcount > 8192 => hbuf[2] = 128

FanoutThresholdWitness ==
    /\ hres.op = "index_header"
    /\ hcount = 8193
    /\ hbuf = << 1, 128 >>

(***************************************************************************)
(* Properties of RevlogIndex                                               *)
(***************************************************************************)
OnDiskCount == Len(records)

\* C6 (tail overlay): after k inserts, however interleaved with the other
\* calls, len() is on_disk_count + k and parents(on_disk_count + i) is the
\* parent list that the i-th insert was given.
TailOverlay ==
    /\ RevlogIndex_len(revlog) = OnDiskCount + Len(passed)
    /\ \A i \in 0..(Len(passed) - 1) :
         RevlogIndex_parents(revlog, OnDiskCount + i) = Ok(passed[i + 1])
    /\ dres.op = "len" => dres.res = Ok(OnDiskCount + Len(passed))
    /\ (dres.op = "parentrevs" /\ dres.args[1] >= OnDiskCount
                               /\ dres.args[1] < OnDiskCount + Len(passed)) =>
         dres.res = Ok(passed[dres.args[1] - OnDiskCount + 1])

TailOverlayWitness ==
    /\ OnDiskCount = 2
    /\ passed = << << 0, 1 >>, << 2 >> >>
    /\ dres.op = "parentrevs"
    /\ dres.args = << 2 >>
    /\ dres.res = Ok(<< 0, 1 >>)

\* the revisions reachable from the revisions S along parent links
ParentsOf(r) ==
    LET p == RevlogIndex_parents(revlog, r) IN
    IF p.kind = "Ok" THEN { p.val[i] : i \in DOMAIN p.val } ELSE { }

RECURSIVE Ancestors(_)
Ancestors(S) ==
    LET T == S \cup UNION { ParentsOf(r) : r \in S } IN
    IF T = S THEN S ELSE Ancestors(T)

Range(seq) == { seq[i] : i \in DOMAIN seq }

\* C7 (phase monotonicity): phasesets(P, D) puts every head of P and every
\* ancestor of one in the public set, every head of D and every ancestor of
\* one that is not public in the draft set, no revision in both sets, and a
\* revision that is neither a head nor an ancestor of a head in neither.
PhaseMonotonicity ==
    (dres.op = "phasesets" /\ dres.res.kind = "Ok") =>
        LET public == Ancestors(Range(dres.args[1]))
            draft == Ancestors(Range(dres.args[2])) \ public
        IN /\ public \subseteq dres.res.val.public_set
           /\ draft \subseteq dres.res.val.draft_set
           /\ dres.res.val.public_set \cap dres.res.val.draft_set = { }
           /\ (dres.res.val.public_set \cup dres.res.val.draft_set)
                 \subseteq (public \cup draft)

\* every parent of a tail revision is below the revision
OrderedTail ==
    \A i \in DOMAIN revlog.inserted :
        \A j \in DOMAIN revlog.inserted[i] :
            revlog.inserted[i][j] < OnDiskCount + i - 1

\* phasesets on a tail whose parents are all below their revisions
PhaseMonotonicityOrdered == OrderedTail => PhaseMonotonicity

\* C8 (on-disk parents): parents(r) of an on-disk revision r is [] for
\* p1 = -1, [p1] for p2 = -1 only and [p1, p2] otherwise, with every parent
\* below r; a record with p1 = -1 and p2 # -1, or with a parent that is not
\* below r, trips an assertion and returns nothing.
OnDiskParents ==
    (dres.op = "parentrevs" /\ dres.args[1] < OnDiskCount) =>
        LET r == dres.args[1]
            p1 == records[r + 1][1]
            p2 == records[r + 1][2]
            below(p) == 0 <= p /\ p < r
        IN IF p1 = -1 /\ p2 = -1 THEN dres.res = Ok(<< >>)
           ELSE IF p1 = -1 THEN dres.res.kind = "Panic"
           ELSE IF p2 = -1
               THEN IF below(p1) THEN dres.res = Ok(<< p1 >>)
                    ELSE dres.res.kind = "Panic"
           ELSE IF below(p1) /\ below(p2) THEN dres.res = Ok(<< p1, p2 >>)
           ELSE dres.res.kind = "Panic"

OnDiskParentsWitness ==
    /\ dres.op = "parentrevs"
    /\ dres.args = << 1 >>
    /\ records = << << -1, -1 >>, << 0, 0 >> >>
    /\ dres.res = Ok(<< 0, 0 >>)

\* the phase phasesets gave to revision r, and the phase its head lists ask for
FinalPhase(r) ==
    IF r \in dres.res.val.public_set THEN Public
    ELSE IF r \in dres.res.val.draft_set THEN Draft
    ELSE Unspecified

HeadPhase(r) ==
    IF r \in Range(dres.args[1]) THEN Public
    ELSE IF r \in Range(dres.args[2]) THEN Draft
    ELSE Unspecified

SetMax(S) == CHOOSE m \in S : \A x \in S : x <= m

Revisions == 0..(RevlogIndex_len(revlog) - 1)

\* C11 (public dominates draft): a revision that is in both head lists is in
\* the public set and not in the draft set, and so is every ancestor of it;
\* the final phase of every revision is the greatest, in the order
\* Unspecified < Draft < Public, of its own head assignment and the final
\* phases of its descendants.
PublicDominates ==
    (dres.op = "phasesets" /\ dres.res.kind = "Ok") =>
        /\ \A r \in Range(dres.args[1]) \cap Range(dres.args[2]) :
             \A a \in Ancestors({ r }) :
                 a \in dres.res.val.public_set /\ a \notin dres.res.val.draft_set
        /\ \A r \in Revisions :
             FinalPhase(r) =
                 SetMax({ HeadPhase(r) } \cup
                        { FinalPhase(c) : c \in { d \in Revisions : r \in ParentsOf(d) } })

\* the same on a tail whose parents are all below their revisions
PublicDominatesOrdered == OrderedTail => PublicDominates

\* C13 (tail parents earlier): after any sequence of insert calls the tail
\* holds exactly the inserted parent lists in call order (append-only), and
\* parents(t) of every tail revision t >= on_disk_count has only members
\* strictly below t, so the descending walk of phasesets never meets a
\* parent at or above the revision it visits.
TailParentsEarlier ==
    /\ revlog.inserted = passed
    /\ \A t \in OnDiskCount..(RevlogIndex_len(revlog) - 1) :
         /\ RevlogIndex_parents(revlog, t).kind = "Ok"
         /\ \A p \in Range(RevlogIndex_parents(revlog, t).val) : p < t

\* C12 (encoding round trip): for every DeltaBaseOffset d (FullText, Missing
\* and Offset(v) for every u32 v), the entry IndexEntry::new built from d,
\* written by IndexEntry::write and parsed by IndexEntry::read, is read
\* successfully and its delta_base_offset() is d.
EncodingRoundTrip ==
    eres.op = "read" =>
        /\ eres.res.kind = "Ok"
        /\ IndexEntry_delta_base_offset(eres.res.val) = eargs.delta_base_offset

\* the same for FullText, Missing and the offsets below 2^31
EncodingRoundTripSigned ==
    (eargs.delta_base_offset.tag = "Offset" =>
         eargs.delta_base_offset.value.hi < 32768) => EncodingRoundTrip

\* the header bytes DataIndexOptions::read accepts
ValidHeader ==
    /\ Len(file) >= 2
    /\ file[1] \in { 0, 1 }
    /\ file[2] \in { 0, LARGE_CONFIG }

\* the file ends before the entry table starts
ShortFile == Len(file) < index.index_start

\* the file ends inside an entry
PartialEntry ==
    /\ Len(file) >= index.index_start
    /\ (Len(file) - index.index_start) % ENTRY_LEN # 0

PartialEntryKeyError ==
    /\ result.op = "get_entry"
    /\ PartialEntry
    /\ result.res.kind = "Err"
    /\ result.res.err = "KeyError"

====
